---- MODULE Spec2Model ----
(***************************************************************************)
(* Model of read_util_report.py: the Vivado utilization-report parser      *)
(* (read_vivado_util_report), the UtilReport queries and the command-line  *)
(* entry point (specification Spec); and of automate_flow.py: main() and   *)
(* the two functions that patch the testbench and the verifier script      *)
(* (specification SpecFlow); and of call_vivado.py: main() and the lookup  *)
(* of the Vivado executable (specification SpecVivado).                    *)
(*                                                                         *)
(* Text is modelled character by character: a Python str is a sequence of  *)
(* one-character strings, a file is the sequence of lines readlines()      *)
(* returns (each line keeps its final "\n").  Optional[T] is a sequence of *)
(* length at most one: None is <<>>, a value x is <<x>>.  A float is the   *)
(* integer number of quarters it holds (3.5 is 14); every float the model  *)
(* produces is a multiple of 0.25, so the arithmetic is exact as it is in  *)
(* IEEE double.                                                            *)
(***************************************************************************)
EXTENDS Integers, Sequences, FiniteSets, TLC

VARIABLES all_lines, uid_counter, reports, last, pc, log, disk, metadata,
          host, launcher

\* the state of a process that uses read_util_report.py
report_vars == <<all_lines, uid_counter, reports, last>>

\* the state of a run of automate_flow.py
flow_vars == <<pc, log, disk, metadata>>

\* the state of a run of call_vivado.py and of the machine it runs on
vivado_vars == <<host, launcher>>

vars ==
    <<all_lines, uid_counter, reports, last, pc, log, disk, metadata,
      host, launcher>>

(***************************************************************************)
(* Python builtins used by the parser                                      *)
(***************************************************************************)
None == <<>>

Some(x) == <<x>>

SetMin(S) == CHOOSE x \in S : \A y \in S : x <= y

SetMax(S) == CHOOSE x \in S : \A y \in S : x >= y

\* str.isspace() on one character; also the class \s of the re module
IsSpace(c) == c \in {" ", "\t", "\n", "\r"}

IsDigit(c) == c \in {"0", "1", "2", "3", "4", "5", "6", "7", "8", "9"}

DigitValue(c) ==
    CASE c = "0" -> 0 [] c = "1" -> 1 [] c = "2" -> 2 [] c = "3" -> 3
      [] c = "4" -> 4 [] c = "5" -> 5 [] c = "6" -> 6 [] c = "7" -> 7
      [] c = "8" -> 8 [] c = "9" -> 9

DigitChar(d) ==
    CASE d = 0 -> "0" [] d = 1 -> "1" [] d = 2 -> "2" [] d = 3 -> "3"
      [] d = 4 -> "4" [] d = 5 -> "5" [] d = 6 -> "6" [] d = 7 -> "7"
      [] d = 8 -> "8" [] d = 9 -> "9"

\* sub in s
py_in(sub, s) ==
    \E i \in 0..(Len(s) - Len(sub)) : \A j \in 1..Len(sub) : s[i + j] = sub[j]

\* s.strip()
py_strip(s) ==
    LET keep == {i \in 1..Len(s) : ~IsSpace(s[i])}
    IN  IF keep = {} THEN <<>> ELSE SubSeq(s, SetMin(keep), SetMax(keep))

\* s.split(sep) for a one-character separator
RECURSIVE py_split(_, _)
py_split(s, sep) ==
    LET at == {i \in 1..Len(s) : s[i] = sep}
    IN  IF at = {} THEN <<s>>
        ELSE LET i == SetMin(at)
             IN  <<SubSeq(s, 1, i - 1)>> \o py_split(SubSeq(s, i + 1, Len(s)), sep)

\* the value of a non-empty string of decimal digits
RECURSIVE DigitsValue(_)
DigitsValue(s) ==
    IF Len(s) = 0 THEN 0
    ELSE 10 * DigitsValue(SubSeq(s, 1, Len(s) - 1)) + DigitValue(s[Len(s)])

AllDigits(s) == Len(s) > 0 /\ \A i \in 1..Len(s) : IsDigit(s[i])

\* int(s) on the cells of a report: a run of decimal digits is its value,
\* any other text raises ValueError
py_int(s) ==
    IF AllDigits(s) THEN [exc |-> "", val |-> DigitsValue(s)]
    ELSE [exc |-> "ValueError", val |-> 0]

\* float(s) on the cells of a report, in quarters: digits, or digits
\* followed by ".0" or ".5"; any other text of the model's cells raises
\* ValueError
py_float(s) ==
    LET n == Len(s)
    IN  IF AllDigits(s) THEN [exc |-> "", val |-> 4 * DigitsValue(s)]
        ELSE IF n >= 3 /\ AllDigits(SubSeq(s, 1, n - 2)) /\ s[n - 1] = "."
                /\ s[n] \in {"0", "5"}
        THEN [exc |-> "",
              val |-> 4 * DigitsValue(SubSeq(s, 1, n - 2))
                      + (IF s[n] = "5" THEN 2 ELSE 0)]
        ELSE [exc |-> "ValueError", val |-> 0]

\* str(n) for n >= 0
RECURSIVE py_str_int(_)
py_str_int(n) ==
    IF n < 10 THEN <<DigitChar(n)>>
    ELSE py_str_int(n \div 10) \o <<DigitChar(n % 10)>>

\* str(x) for a float x >= 0 held in quarters
py_str_float(q) ==
    py_str_int(q \div 4)
      \o (CASE q % 4 = 0 -> <<".", "0">>
            [] q % 4 = 1 -> <<".", "2", "5">>
            [] q % 4 = 2 -> <<".", "5">>
            [] q % 4 = 3 -> <<".", "7", "5">>)

(***************************************************************************)
(* Column names and the two marker substrings                              *)
(***************************************************************************)
kTotalLUTs == <<"T", "o", "t", "a", "l", " ", "L", "U", "T", "s">>

kInstance == <<"I", "n", "s", "t", "a", "n", "c", "e">>

kModule == <<"M", "o", "d", "u", "l", "e">>

kSRLs == <<"S", "R", "L", "s">>

kFFs == <<"F", "F", "s">>

kRAMB36 == <<"R", "A", "M", "B", "3", "6">>

kRAMB18 == <<"R", "A", "M", "B", "1", "8">>

kURAM == <<"U", "R", "A", "M">>

kDSPBlocks == <<"D", "S", "P", " ", "B", "l", "o", "c", "k", "s">>

kRuleMark == <<"-", "+", "-">>

(***************************************************************************)
(* The nested helpers of read_vivado_util_report                           *)
(***************************************************************************)
SelectNonEmpty(segs) == SelectSeq(segs, LAMBDA f : f # <<>>)

\* [segment.strip() for segment in line.split("|")], empty fragments dropped
parse_table_row(line) ==
    LET parts == py_split(line, "|")
        splitted == [i \in 1..Len(parts) |-> py_strip(parts[i])]
    IN  SelectNonEmpty(splitted)

\* re.sub(r"^(\s*)(.*)$", r"\1", instance): the match starts at 0, takes
\* the leading whitespace greedily, then every character up to the end of
\* the string or up to a final "\n" ('.' does not match "\n", '$' matches
\* before a final "\n"); what the match did not cover stays in the result.
LeadingSpace(s) ==
    LET stop == {i \in 1..Len(s) : ~IsSpace(s[i])}
    IN  IF stop = {} THEN s ELSE SubSeq(s, 1, SetMin(stop) - 1)

re_sub_leading(instance) ==
    LET lead == LeadingSpace(instance)
        n == Len(instance)
    IN  IF lead = instance THEN instance
        ELSE IF instance[n] = "\n" THEN lead \o <<"\n">>
        ELSE lead

\* parse_table_row_depth without the "- 1"
parse_table_row_depth_no_offset(line) ==
    LET parts == py_split(line, "|")
    IN  IF Len(parts) < 2 THEN [exc |-> "IndexError", val |-> 0]
        ELSE [exc |-> "", val |-> Len(re_sub_leading(parts[2])) \div 2]

parse_table_row_depth(line) ==
    LET parts == py_split(line, "|")
    IN  IF Len(parts) < 2 THEN [exc |-> "IndexError", val |-> 0]
        ELSE LET whitespace_at_front == re_sub_leading(parts[2])
                 number_of_spaces == Len(whitespace_at_front)
                 d == (number_of_spaces - 1) \div 2
             IN  [exc |-> "", val |-> IF d > 0 THEN d ELSE 0]

(***************************************************************************)
(* UtilReportEntry and the body of the row loop                            *)
(***************************************************************************)
\* UtilReportEntry(): the dataclass defaults
DefaultEntry ==
    [Instance |-> None, Module |-> None, LUTs |-> 0, SRLs |-> 0, FFs |-> 0,
     BRAMs |-> 0, URAMs |-> 0, DSPs |-> 0, Depth |-> None, UId |-> None]

\* {key: value for key, value in zip(header_fields, values)}: zip stops at
\* the shorter list, a repeated key keeps its last value
ZipLen(header_fields, values) ==
    IF Len(header_fields) < Len(values) THEN Len(header_fields) ELSE Len(values)

MapKeys(header_fields, values) ==
    {header_fields[i] : i \in 1..ZipLen(header_fields, values)}

MapGet(header_fields, values, key) ==
    values[SetMax({i \in 1..ZipLen(header_fields, values) : header_fields[i] = key})]

\* record_map.get(key): Optional[str]
MapGetOpt(header_fields, values, key) ==
    IF key \in MapKeys(header_fields, values)
    THEN Some(MapGet(header_fields, values, key)) ELSE None

\* IntField without the membership test: record_map[key] on an absent key
IntFieldRequired(header_fields, values, key) ==
    IF key \in MapKeys(header_fields, values)
    THEN py_int(MapGet(header_fields, values, key))
    ELSE [exc |-> "KeyError", val |-> 0]

\* if key in record_map: field = int(record_map[key])   (else the default 0)
IntField(header_fields, values, key) ==
    IF key \in MapKeys(header_fields, values)
    THEN py_int(MapGet(header_fields, values, key))
    ELSE [exc |-> "", val |-> 0]

\* float(record_map.get(key, 0))
FloatField(header_fields, values, key) ==
    IF key \in MapKeys(header_fields, values)
    THEN py_float(MapGet(header_fields, values, key))
    ELSE [exc |-> "", val |-> 0]

\* ramb36 + ramb18 * 0.5, in quarters
FuseBRAMs(ramb36, ramb18) == ramb36 + ramb18 \div 2

\* The end of one pass of the loop body: steps holds the conversions in the
\* order the source makes them (the seven numeric fields, then the depth);
\* the first that raised ends the pass, else the record is complete.
RowOutcome(steps, instance, module, uid) ==
    LET bad == {i \in 1..Len(steps) : steps[i].exc # ""}
    IN  IF bad # {}
        THEN [exc |-> steps[SetMin(bad)].exc, record |-> DefaultEntry]
        ELSE [exc |-> "",
              record |->
                [Instance |-> instance,
                 Module   |-> module,
                 LUTs     |-> steps[1].val,
                 SRLs     |-> steps[2].val,
                 FFs      |-> steps[3].val,
                 BRAMs    |-> FuseBRAMs(steps[4].val, steps[5].val),
                 URAMs    |-> steps[6].val,
                 DSPs     |-> steps[7].val,
                 Depth    |-> Some(steps[8].val),
                 UId      |-> Some(uid)]]

\* the loop body from record_map on; depth is parse_table_row_depth(cur_line)
ParseValues(header_fields, values, depth, uid) ==
    RowOutcome(<<IntField(header_fields, values, kTotalLUTs),
                 IntField(header_fields, values, kSRLs),
                 IntField(header_fields, values, kFFs),
                 FloatField(header_fields, values, kRAMB36),
                 FloatField(header_fields, values, kRAMB18),
                 IntField(header_fields, values, kURAM),
                 IntField(header_fields, values, kDSPBlocks),
                 depth>>,
               MapGetOpt(header_fields, values, kInstance),
               MapGetOpt(header_fields, values, kModule),
               uid)

\* One pass of the loop body for a row that is neither a rule nor blank
ParseRow(header_fields, cur_line, uid) ==
    ParseValues(header_fields, parse_table_row(cur_line),
                parse_table_row_depth(cur_line), uid)

(***************************************************************************)
(* read_vivado_util_report                                                 *)
(***************************************************************************)
\* FindHeader without the break: the last line that holds "Total LUTs"
RECURSIVE FindHeaderNoBreak(_, _)
FindHeaderNoBreak(lines, i) ==
    IF i >= Len(lines) THEN -1
    ELSE LET later == FindHeaderNoBreak(lines, i + 1)
         IN  IF later # -1 THEN later
             ELSE IF py_in(kTotalLUTs, lines[i + 1]) THEN i ELSE -1

\* for i, line in enumerate(all_lines): if "Total LUTs" in line: ... break
\* Indices are those of the source (the first line is line 0); -1 when the
\* loop ends without a hit.
RECURSIVE FindHeader(_, _)
FindHeader(lines, i) ==
    IF i >= Len(lines) THEN -1
    ELSE IF py_in(kTotalLUTs, lines[i + 1]) THEN i
    ELSE FindHeader(lines, i + 1)

\* for line_idx in range(cur_line_index, len(all_lines)): ...
\* entries and uid are the list built so far and the global counter; the
\* result's exc is "" on return (entries is then the report's all_entries)
\* or the exception raised, uid is the counter's value afterwards.
RECURSIVE ScanRows(_, _, _, _, _)

\* ScanRow with the failure of a row caught: the scan ends at the row and
\* the entries before it are returned
ScanRowKeepsEarlier(lines, header_fields, line_idx, entries, uid, row) ==
    IF row.exc # ""
    THEN [exc |-> "", entries |-> entries, uid |-> uid]
    ELSE ScanRows(lines, header_fields, line_idx + 1,
                  Append(entries, row.record), uid + 1)

\* the end of a pass: the row raised, or its record is appended, the counter
\* incremented and the loop goes on
ScanRow(lines, header_fields, line_idx, entries, uid, row) ==
    IF row.exc # ""
    THEN [exc |-> row.exc, entries |-> <<>>, uid |-> uid]
    ELSE ScanRows(lines, header_fields, line_idx + 1,
                  Append(entries, row.record), uid + 1)

\* ScanLine with a blank line ending the scan (break for continue)
ScanLineBlankEnds(lines, header_fields, line_idx, entries, uid, cur_line) ==
    IF py_in(kRuleMark, cur_line) \/ py_strip(cur_line) = <<>>
    THEN [exc |-> "", entries |-> entries, uid |-> uid]
    ELSE ScanRow(lines, header_fields, line_idx, entries, uid,
                 ParseRow(header_fields, cur_line, uid))

\* one pass over cur_line = all_lines[line_idx]
ScanLine(lines, header_fields, line_idx, entries, uid, cur_line) ==
    IF py_in(kRuleMark, cur_line)
    THEN [exc |-> "", entries |-> entries, uid |-> uid]
    ELSE IF py_strip(cur_line) = <<>>
    THEN ScanRows(lines, header_fields, line_idx + 1, entries, uid)
    ELSE ScanRow(lines, header_fields, line_idx, entries, uid,
                 ParseRow(header_fields, cur_line, uid))

ScanRows(lines, header_fields, line_idx, entries, uid) ==
    IF line_idx >= Len(lines)
    THEN [exc |-> "", entries |-> entries, uid |-> uid]
    ELSE ScanLine(lines, header_fields, line_idx, entries, uid, lines[line_idx + 1])

\* the function from the header lookup on
ReadFrom(lines, uid, cur_line_index) ==
    IF cur_line_index = -1
    THEN [exc |-> "RuntimeError", entries |-> <<>>, uid |-> uid]
    ELSE ScanRows(lines, parse_table_row(lines[cur_line_index + 1]),
                  cur_line_index + 2, <<>>, uid)

\* The whole function on the lines of the file and the counter's value at
\* the call.
read_vivado_util_report(lines, uid) == ReadFrom(lines, uid, FindHeader(lines, 0))

(***************************************************************************)
(* UtilReport and the command line                                         *)
(***************************************************************************)
\* get_top that returns the last entry
get_top_last(all_entries) ==
    IF Len(all_entries) = 0
    THEN [exc |-> "IndexError", val |-> None, msg |-> <<>>]
    ELSE [exc |-> "", val |-> Some(all_entries[Len(all_entries)]), msg |-> <<>>]

\* get_top that returns None for an empty report
get_top_or_none(all_entries) ==
    IF Len(all_entries) = 0
    THEN [exc |-> "", val |-> None, msg |-> <<>>]
    ELSE [exc |-> "", val |-> Some(all_entries[1]), msg |-> <<>>]

\* return self.all_entries[0]
get_top(all_entries) ==
    IF Len(all_entries) = 0
    THEN [exc |-> "IndexError", val |-> None, msg |-> <<>>]
    ELSE [exc |-> "", val |-> Some(all_entries[1]), msg |-> <<>>]

\* Matches with "not depth" for "depth is None": depth 0 filters nothing
MatchesDepthTruthy(entry, instance_name, depth) ==
    /\ entry.Instance = Some(instance_name)
    /\ (depth = None \/ depth = Some(0) \/ depth = entry.Depth)

\* entry.Instance == instance_name and (depth is None or depth == entry.Depth)
\* depth is Optional[int]
Matches(entry, instance_name, depth) ==
    /\ entry.Instance = Some(instance_name)
    /\ (depth = None \/ depth = entry.Depth)

\* repr(x) for an Optional[str] whose text needs no escaping
py_repr_opt(opt) ==
    IF opt = None THEN <<"N", "o", "n", "e">> ELSE <<"'">> \o opt[1] \o <<"'">>

\* str(list) of Optional[str]: the reprs, separated by ", ", in brackets
RECURSIVE JoinReprs(_)
JoinReprs(names) ==
    IF Len(names) = 0 THEN <<>>
    ELSE IF Len(names) = 1 THEN py_repr_opt(names[1])
    ELSE py_repr_opt(names[1]) \o <<",", " ">> \o JoinReprs(Tail(names))

py_str_list(names) == <<"[">> \o JoinReprs(names) \o <<"]">>

\* f"Cannot find util entry with instance name '{instance_name}'. "
\* f"Available instances: {all_names}"
CannotFindMessage(instance_name, all_names) ==
    <<"C", "a", "n", "n", "o", "t", " ", "f", "i", "n", "d", " ", "u", "t", "i",
      "l", " ", "e", "n", "t", "r", "y", " ", "w", "i", "t", "h", " ", "i", "n",
      "s", "t", "a", "n", "c", "e", " ", "n", "a", "m", "e", " ", "'">>
      \o instance_name
      \o <<"'", ".", " ", "A", "v", "a", "i", "l", "a", "b", "l", "e", " ", "i",
           "n", "s", "t", "a", "n", "c", "e", "s", ":", " ">>
      \o py_str_list(all_names)

\* AllNames with each name listed once, at its first place
AllNamesOnce(all_entries) ==
    LET first == {i \in 1..Len(all_entries) :
                    \A j \in 1..(i - 1) : all_entries[j].Instance # all_entries[i].Instance}
    IN  [k \in 1..Cardinality(first) |->
            all_entries[CHOOSE i \in first :
                           Cardinality({j \in first : j < i}) = k - 1].Instance]

\* all_names = [entry.Instance for entry in self.all_entries]
AllNames(all_entries) == [i \in 1..Len(all_entries) |-> all_entries[i].Instance]

\* msg is the text of the ValueError raised
get_by_instance_name(all_entries, instance_name, depth) ==
    LET hits == {i \in 1..Len(all_entries) :
                    Matches(all_entries[i], instance_name, depth)}
    IN  IF hits # {}
        THEN [exc |-> "", val |-> Some(all_entries[SetMin(hits)]), msg |-> <<>>]
        ELSE [exc |-> "ValueError", val |-> None,
              msg |-> CannotFindMessage(instance_name, AllNames(all_entries))]

\* an except clause that names another class
CaughtKeyError == "KeyError"

\* the exception class the except clause names
CaughtByOrNone == "ValueError"

\* except ValueError: return None   (r is what the try block gave)
OrNone(r) ==
    IF r.exc = CaughtByOrNone THEN [exc |-> "", val |-> None, msg |-> <<>>] ELSE r

\* try: return self.get_by_instance_name(...)  except ValueError: return None
get_by_instance_name_or_none(all_entries, instance_name, depth) ==
    OrNone(get_by_instance_name(all_entries, instance_name, depth))

\* every resource count of the entry is zero
AllZero(entry) ==
    /\ entry.LUTs = 0 /\ entry.FFs = 0 /\ entry.SRLs = 0
    /\ entry.URAMs = 0 /\ entry.DSPs = 0 /\ entry.BRAMs = 0

\* an entry that is truthy only when it holds a resource
EntryTruthyIfUsed(entry) == ~AllZero(entry)

\* The dataclass defines neither __bool__ nor __len__: an entry is truthy
\* whatever its fields hold.
EntryTruthy(entry) == TRUE

\* if entry:   for entry an Optional[UtilReportEntry]
OptTruthy(opt) == opt # None /\ EntryTruthy(opt[1])

\* if args.instance:   for an Optional[str]
StrTruthy(opt) == opt # None /\ opt[1] # <<>>

\* str(x) for an Optional[str] inside an f-string
py_str_opt(opt) == IF opt = None THEN <<"N", "o", "n", "e">> ELSE opt[1]

\* UtilReportEntry.get_string
get_string(entry) ==
    py_str_opt(entry.Instance)
      \o <<" ", "-", ">", " ", "L", "U", "T", "s", ":", " ">> \o py_str_int(entry.LUTs)
      \o <<" ", "F", "F", "s", ":", " ">> \o py_str_int(entry.FFs)
      \o <<" ", "D", "S", "P", "s", ":", " ">> \o py_str_int(entry.DSPs)
      \o <<" ", "B", "R", "A", "M", "s", ":", " ">> \o py_str_float(entry.BRAMs)

\* f"Instance '{args.instance}' not found."
NotFoundLine(instance) ==
    <<"I", "n", "s", "t", "a", "n", "c", "e", " ", "'">> \o instance
      \o <<"'", " ", "n", "o", "t", " ", "f", "o", "u", "n", "d", ".">>

\* if entry: print(entry.get_string())  else: print(... not found.)
PrintOne(entry, instance_name, uid) ==
    IF entry.exc # ""
    THEN [exc |-> entry.exc, stdout |-> <<>>, uid |-> uid]
    ELSE IF OptTruthy(entry.val)
    THEN [exc |-> "", stdout |-> <<get_string(entry.val[1])>>, uid |-> uid]
    ELSE [exc |-> "", stdout |-> <<NotFoundLine(instance_name)>>, uid |-> uid]

\* main() from the return of read_vivado_util_report on
MainWith(parsed, instance) ==
    IF parsed.exc # ""
    THEN [exc |-> parsed.exc, stdout |-> <<>>, uid |-> parsed.uid]
    ELSE IF StrTruthy(instance)
    THEN PrintOne(get_by_instance_name_or_none(parsed.entries, instance[1], None),
                  instance[1], parsed.uid)
    ELSE [exc |-> "",
          stdout |-> [i \in 1..Len(parsed.entries) |-> get_string(parsed.entries[i])],
          uid |-> parsed.uid]

\* main(): the lines printed, or the exception that ends the process; uid
\* is the counter's value afterwards.  instance is args.instance.
main(lines, instance, uid) ==
    MainWith(read_vivado_util_report(lines, uid), instance)

(***************************************************************************)
(* The report files the model reads                                        *)
(***************************************************************************)
MaxRows == 2

MaxIndent == 5

MaxCalls == 2

Spaces(n) == [i \in 1..n |-> " "]

\* a table line: cells between pipes, then the newline
RECURSIVE JoinCells(_)
JoinCells(cells) ==
    IF Len(cells) = 0 THEN <<>>
    ELSE cells[1] \o <<"|">> \o JoinCells(Tail(cells))

TableLine(cells) == <<"|">> \o JoinCells(cells) \o <<"\n">>

\* a cell as Vivado pads it: indent spaces, the text, one space
Cell(indent, text) == Spaces(indent) \o text \o <<" ">>

HeaderNarrow == TableLine(<<Cell(1, kInstance), Cell(1, kTotalLUTs), Cell(1, kFFs)>>)

HeaderWide ==
    TableLine(<<Cell(1, kInstance), Cell(1, kModule), Cell(1, kTotalLUTs),
                Cell(1, kFFs), Cell(1, kRAMB36), Cell(1, kRAMB18),
                Cell(1, kDSPBlocks)>>)

RuleLine == <<"+", "-", "-", "-", "+", "-", "-", "-", "+", "\n">>

BlankLine == <<" ", "\n">>

NoteLine == <<"N", "o", "t", "e", "\n">>

RowB0 == TableLine(<<Cell(1, <<"b">>), Cell(1, <<"3">>), Cell(1, <<"4">>)>>)

RowA1 == TableLine(<<Cell(3, <<"a">>), Cell(1, <<"0">>), Cell(1, <<"0">>)>>)

RowA0 == TableLine(<<Cell(1, <<"a">>), Cell(1, <<"5">>), Cell(1, <<"0">>)>>)

RowBad == TableLine(<<Cell(1, <<"a">>), Cell(1, <<"N", "/", "A">>), Cell(1, <<"0">>)>>)

\* rows that are not well-formed table lines: one pipe only, no pipe before
\* the first cell (NoteLine, with no pipe at all, is a third)
RowOnePipe == <<"|", " ", " ", "a", "\n">>

RowNoLeadingPipe == <<"a", " ", "|", " ", " ", " ", "1", " ", "|", "\n">>

RECURSIVE SeqsUpTo(_, _)
SeqsUpTo(S, n) ==
    IF n = 0 THEN {<<>>}
    ELSE LET shorter == SeqsUpTo(S, n - 1)
         IN  shorter \cup {Append(f, x) : f \in {g \in shorter : Len(g) = n - 1}, x \in S}

\* what precedes the table in the file
Preambles == {<<>>, <<RuleLine, RowA0>>}

\* the line that follows the header line
AfterHeader == {RuleLine, RowA0, HeaderNarrow}

\* the lines from the second line after the header on: at most MaxRows of
\* rows (one of them with a cell that is no number), blank lines and rules
BodyPool == {RowB0, RowA1, RowA0, RowBad, BlankLine, RuleLine}

Bodies == SeqsUpTo(BodyPool, MaxRows)

TableFiles ==
    {pre \o <<HeaderNarrow>> : pre \in Preambles}
      \cup {pre \o <<HeaderNarrow, after>> \o body :
              pre \in Preambles, after \in AfterHeader, body \in Bodies}

\* files that hold no line with "Total LUTs"
HeaderlessFiles == {pre \o body : pre \in Preambles, body \in SeqsUpTo(BodyPool, 1)}

\* one row under the wide header: the instance cell at every indent, cells
\* that are blank or not numbers among the others
WideRows ==
    {TableLine(<<Spaces(n) \o inst, module, luts, Cell(1, <<"1">>),
                 Cell(1, <<"2">>), Cell(1, <<"3">>), Cell(1, <<"1">>)>>) :
        n \in 0..MaxIndent,
        inst \in {<<"a", " ">>, <<>>},
        module \in {Cell(1, <<"m">>), <<" ", " ">>},
        luts \in {Cell(1, <<"5">>), Cell(1, <<"N", "/", "A">>), <<" ">>}}

\* a header whose only cell with "Total LUTs" in it is not the column of
\* that name: it has no Total LUTs, FFs, RAMB36 or DSP Blocks column
HeaderOdd ==
    TableLine(<<Cell(1, kInstance), Cell(1, kTotalLUTs \o <<"%">>), Cell(1, kSRLs),
                Cell(1, kURAM), Cell(1, kRAMB18)>>)

\* rows under HeaderOdd: the percentage, SRLs, URAM and RAMB18 cells
OddRows ==
    {TableLine(<<Cell(1, <<"a">>), Cell(1, pct), Cell(1, <<"8">>), Cell(1, uram),
                 Cell(1, ramb18)>>) :
        pct \in {<<"7">>, <<"N", "/", "A">>},
        uram \in {<<"9">>, <<"N", "/", "A">>},
        ramb18 \in {<<"3">>, <<"0", ".", "5">>}}

RowFiles ==
    {<<HeaderWide, RuleLine, row>> : row \in WideRows}
      \cup {<<HeaderNarrow, RuleLine, row>> :
              row \in {RowOnePipe, RowNoLeadingPipe, NoteLine}}
      \cup {<<HeaderOdd, RuleLine, row>> : row \in OddRows}

Files == TableFiles \cup HeaderlessFiles \cup RowFiles

\* the files a process may go on to read after the first: one that parses
\* and one whose second row raises
OtherFiles ==
    {<<HeaderNarrow, RuleLine, RowB0>>, <<HeaderNarrow, RuleLine, RowB0, RowBad>>}

\* the instance names and depths the queries are called with
QueryNames == {<<"a">>, <<"z">>}

QueryDepths == {None, Some(0), Some(1)}

\* args.instance: absent, empty, or a name
CliInstances == {None, Some(<<>>)} \cup {Some(n) : n \in QueryNames}

(***************************************************************************)
(* The process: one file, calls of the parser, queries on its reports      *)
(***************************************************************************)
NoCall ==
    [op |-> "none", r |-> 0, instance |-> None, depth |-> None, exc |-> "",
     val |-> None, msg |-> <<>>, stdout |-> <<>>]

\* no run of automate_flow.py in this process
NoFlow ==
    /\ pc = "none"
    /\ log = <<>>
    /\ disk = [tb |-> <<>>, verifier |-> <<>>]
    /\ metadata = None

\* the locals of call_vivado.py main() before any of them is bound
NoLaunch ==
    [pc |-> "none",
     args |-> [vivado_executable |-> None, tcl_script |-> <<>>, args |-> <<>>],
     vivado_executable |-> None, command |-> <<>>, exc |-> "", returncode |-> 0]

\* a machine without symbolic links
NoLinks == [link \in {} |-> <<>>]

\* no run of call_vivado.py in this process
NoVivado ==
    /\ host = [files |-> {}, links |-> NoLinks, PATH |-> <<>>]
    /\ launcher = NoLaunch

Init ==
    /\ all_lines \in Files
    /\ uid_counter = 0
    /\ reports = <<>>
    /\ last = NoCall
    /\ NoFlow
    /\ NoVivado

Running == last.op # "main"

\* ReadReturns with the counter not written back (no "global uid_counter")
ReadReturnsCounterLocal(lines, res) ==
    /\ all_lines' = lines
    /\ uid_counter' = uid_counter
    /\ reports' = Append(reports, [exc |-> res.exc, all_entries |-> res.entries])
    /\ last' = [NoCall EXCEPT !.op = "read_vivado_util_report",
                              !.r = Len(reports) + 1, !.exc = res.exc]
    /\ UNCHANGED <<flow_vars, vivado_vars>>

\* util = read_vivado_util_report(path), lines the content of the file at
\* path: a call that raises leaves its exception in the call history, a
\* call that returns its report; all_lines is the file of the latest call
ReadReturns(lines, res) ==
    /\ all_lines' = lines
    /\ uid_counter' = res.uid
    /\ reports' = Append(reports, [exc |-> res.exc, all_entries |-> res.entries])
    /\ last' = [NoCall EXCEPT !.op = "read_vivado_util_report",
                              !.r = Len(reports) + 1, !.exc = res.exc]
    /\ UNCHANGED <<flow_vars, vivado_vars>>

ReadReport(lines) ==
    /\ Running
    /\ Len(reports) < MaxCalls
    /\ ReadReturns(lines, read_vivado_util_report(lines, uid_counter))

\* the calls that returned a report
Returned == {r \in 1..Len(reports) : reports[r].exc = ""}

\* the caller holds the report of the latest call, if that call returned
HasReport == reports # <<>> /\ reports[Len(reports)].exc = ""

util == reports[SetMax(Returned)].all_entries

\* QueryReturns for queries that take the first entry out of the list they
\* search (all_entries.pop(0) for all_entries[0])
QueryReturnsPopping(op, instance, depth, res) ==
    /\ last' = [op |-> op, r |-> SetMax(Returned), instance |-> instance,
                depth |-> depth, exc |-> res.exc, val |-> res.val,
                msg |-> res.msg, stdout |-> <<>>]
    /\ reports' = [reports EXCEPT ![SetMax(Returned)].all_entries =
                                    IF @ = <<>> THEN @ ELSE Tail(@)]
    /\ UNCHANGED <<all_lines, uid_counter>>
    /\ UNCHANGED <<flow_vars, vivado_vars>>

\* a query leaves its outcome in last and nothing else
QueryReturns(op, instance, depth, res) ==
    /\ last' = [op |-> op, r |-> SetMax(Returned), instance |-> instance,
                depth |-> depth, exc |-> res.exc, val |-> res.val,
                msg |-> res.msg, stdout |-> <<>>]
    /\ UNCHANGED <<all_lines, uid_counter, reports>>
    /\ UNCHANGED <<flow_vars, vivado_vars>>

GetTop ==
    /\ Running
    /\ HasReport
    /\ QueryReturns("get_top", None, None, get_top(util))

GetByInstanceName(instance_name, depth) ==
    /\ Running
    /\ HasReport
    /\ QueryReturns("get_by_instance_name", Some(instance_name), depth,
                    get_by_instance_name(util, instance_name, depth))

GetByInstanceNameOrNone(instance_name, depth) ==
    /\ Running
    /\ HasReport
    /\ QueryReturns("get_by_instance_name_or_none", Some(instance_name), depth,
                    get_by_instance_name_or_none(util, instance_name, depth))

\* python read_util_report.py <report> [--instance NAME]: main() is what a
\* fresh process runs, and the process ends with it
MainReturns(instance, res) ==
    /\ uid_counter' = res.uid
    /\ last' = [NoCall EXCEPT !.op = "main", !.instance = instance,
                              !.exc = res.exc, !.stdout = res.stdout]
    /\ UNCHANGED <<all_lines, reports>>
    /\ UNCHANGED <<flow_vars, vivado_vars>>

Main(instance) ==
    /\ last.op = "none"
    /\ MainReturns(instance, main(all_lines, instance, uid_counter))

Next ==
    \/ \E lines \in {all_lines} \cup OtherFiles : ReadReport(lines)
    \/ GetTop
    \/ \E n \in QueryNames, d \in QueryDepths : GetByInstanceName(n, d)
    \/ \E n \in QueryNames, d \in QueryDepths : GetByInstanceNameOrNone(n, d)
    \/ \E i \in CliInstances : Main(i)

Spec == Init /\ [][Next]_vars

(***************************************************************************)
(* automate_flow.py: update_tb and update_verifier                         *)
(*                                                                         *)
(* A file these functions patch is the sequence of its lines, and a line   *)
(* is <<pattern, number>>: pattern names the regular expression of the     *)
(* source that matches the line ("x_tb", "y_tb", "loop", "report" in the   *)
(* testbench, "LSB_IN", "LSB_OUT" in the verifier script, "other" for a    *)
(* line that none matches) and number is the number written in the line.   *)
(***************************************************************************)
MatchesOf(text, pattern) == {i \in 1..Len(text) : text[i][1] = pattern}

\* re.subn(pattern, repl, text, count=1): the text with the first match
\* replaced, and the number of replacements made (0 or 1)
re_subn(pattern, number, text) ==
    IF MatchesOf(text, pattern) = {} THEN [text |-> text, n |-> 0]
    ELSE [text |-> [text EXCEPT ![SetMin(MatchesOf(text, pattern))] = <<pattern, number>>],
          n |-> 1]

\* update_tb with the file written as soon as the two widths are replaced
update_tb_widths_written(text, x_width, y_width) ==
    LET x == re_subn("x_tb", x_width - 1, text)
        y == re_subn("y_tb", y_width - 1, x.text)
        sweep_count == 2 ^ x_width
        loop == re_subn("loop", sweep_count - 1, y.text)
        report == re_subn("report", sweep_count, loop.text)
    IN  IF x.n # 1 \/ y.n # 1 THEN [exc |-> "RuntimeError", written |-> None]
        ELSE IF loop.n # 1 \/ report.n # 1
        THEN [exc |-> "RuntimeError", written |-> Some(y.text)]
        ELSE [exc |-> "", written |-> Some(report.text)]

\* update_tb(tb_path, x_width, y_width) on the text of the file: the
\* exception raised, if any, and the text tb_path.write_text() wrote, if
\* the function got that far
update_tb(text, x_width, y_width) ==
    LET x == re_subn("x_tb", x_width - 1, text)
        y == re_subn("y_tb", y_width - 1, x.text)
        sweep_count == 2 ^ x_width
        loop == re_subn("loop", sweep_count - 1, y.text)
        report == re_subn("report", sweep_count, loop.text)
    IN  IF x.n # 1 \/ y.n # 1 THEN [exc |-> "RuntimeError", written |-> None]
        ELSE IF loop.n # 1 \/ report.n # 1
        THEN [exc |-> "RuntimeError", written |-> None]
        ELSE [exc |-> "", written |-> Some(report.text)]

\* update_verifier(script_path, lsb_in, lsb_out), likewise
update_verifier(text, lsb_in, lsb_out) ==
    LET n1 == re_subn("LSB_IN", lsb_in, text)
        n2 == re_subn("LSB_OUT", lsb_out, n1.text)
    IN  IF n1.n # 1 \/ n2.n # 1 THEN [exc |-> "RuntimeError", written |-> None]
        ELSE [exc |-> "", written |-> Some(n2.text)]

\* the most lines of a file that one pattern matches
MaxSites == 2

\* count lines that pattern matches, with the numbers first + 1, first + 2, ...
Sites(pattern, count, first) == [i \in 1..count |-> <<pattern, first + i>>]

OtherLine == <<"other", 0>>

\* tb_FixFunctionByTable.vhdl as the run finds it
TbFiles ==
    {<<OtherLine>> \o Sites("x_tb", a, 6) \o Sites("y_tb", b, 6)
                  \o Sites("loop", c, 254) \o Sites("report", d, 255) :
        a \in 0..MaxSites, b \in 0..MaxSites, c \in 0..MaxSites, d \in 0..MaxSites}

\* verify_fixfunction_outputs.py as the run finds it
VerifierFiles ==
    {Sites("LSB_IN", a, -4) \o <<OtherLine>> \o Sites("LSB_OUT", b, -4) :
        a \in 0..MaxSites, b \in 0..MaxSites}

\* what parse_flopoco_metadata returns of what the later statements use
Metas ==
    {[x_width |-> 3, y_width |-> 5, lsb_in |-> -6, lsb_out |-> -5],
     [x_width |-> 8, y_width |-> 8, lsb_in |-> -3, lsb_out |-> -3]}

(***************************************************************************)
(* automate_flow.py: main()                                                *)
(*                                                                         *)
(* pc is the statement main() is at, log the statements it has begun, in   *)
(* order, each with how it ended; disk holds the two files main() patches, *)
(* metadata what parse_flopoco_metadata returned.                          *)
(***************************************************************************)
\* the statements of main() that can fail or that run a command, in order
Program ==
    <<"check_dir", "flopoco", "copy_parse", "update_tb", "update_verifier",
      "call_vivado", "read_util_report", "check_settings", "xvhdl", "xelab",
      "xsim", "cleanup", "verify", "compute_errors">>

\* those that call run_cmd, directly or through run_vivado_cmd
Commands ==
    {"flopoco", "call_vivado", "read_util_report", "xvhdl", "xelab", "xsim",
     "verify", "compute_errors"}

After(statement) ==
    LET i == CHOOSE j \in 1..Len(Program) : Program[j] = statement
    IN  IF i = Len(Program) THEN "done" ELSE Program[i + 1]

\* the exit statuses of a child process
ReturnCodes == {0, 1, 2}

\* an exception leaves main(), which catches none; else main() goes on
Continue(statement, exc) == IF exc # "" THEN "aborted" ELSE After(statement)

\* a statement that runs inside the process, from its start to its end
Runs(statement, exc) ==
    /\ pc = statement
    /\ log' = Append(log, [statement |-> statement, ended |-> TRUE,
                           returncode |-> None, exc |-> exc])
    /\ pc' = Continue(statement, exc)
    /\ UNCHANGED <<report_vars, vivado_vars>>

\* run_cmd with check=False
run_cmd_unchecked(returncode) == ""

\* subprocess.run(cmd, cwd=workdir, check=True) once the child has exited
run_cmd(returncode) == IF returncode # 0 THEN "CalledProcessError" ELSE ""

Begun(command) ==
    /\ pc = command
    /\ log # <<>>
    /\ log[Len(log)].statement = command
    /\ ~log[Len(log)].ended

\* subprocess.run starts the child, or raises when there is no executable
Spawn(command, found) ==
    /\ pc = command
    /\ ~Begun(command)
    /\ log' = Append(log, [statement |-> command, ended |-> ~found,
                           returncode |-> None,
                           exc |-> IF found THEN "" ELSE "FileNotFoundError"])
    /\ pc' = IF found THEN pc ELSE "aborted"
    /\ UNCHANGED <<disk, metadata>>
    /\ UNCHANGED <<report_vars, vivado_vars>>

\* the child exits and subprocess.run returns or raises
Exits(command, returncode) ==
    /\ Begun(command)
    /\ log' = [log EXCEPT ![Len(log)] =
                  [statement |-> command, ended |-> TRUE,
                   returncode |-> Some(returncode), exc |-> run_cmd(returncode)]]
    /\ pc' = Continue(command, run_cmd(returncode))
    /\ UNCHANGED <<disk, metadata>>
    /\ UNCHANGED <<report_vars, vivado_vars>>

\* if not flopoco_dir.exists(): raise FileNotFoundError
CheckDir(exists) ==
    /\ Runs("check_dir", IF exists THEN "" ELSE "FileNotFoundError")
    /\ UNCHANGED <<disk, metadata>>

\* the generated file is looked for, copied, and its metadata parsed
CopyAndParse ==
    \/ /\ \E exc \in {"FileNotFoundError", "RuntimeError"} : Runs("copy_parse", exc)
       /\ UNCHANGED <<disk, metadata>>
    \/ /\ Runs("copy_parse", "")
       /\ \E m \in Metas : metadata' = Some(m)
       /\ UNCHANGED disk

\* a patching function has run on a file of the disk
Patched(statement, file, res) ==
    /\ Runs(statement, res.exc)
    /\ disk' = IF res.written = None THEN disk
               ELSE [disk EXCEPT ![file] = res.written[1]]
    /\ UNCHANGED metadata

UpdateTb ==
    /\ pc = "update_tb"
    /\ Patched("update_tb", "tb",
               update_tb(disk.tb, metadata[1].x_width, metadata[1].y_width))

UpdateVerifier ==
    /\ pc = "update_verifier"
    /\ Patched("update_verifier", "verifier",
               update_verifier(disk.verifier, metadata[1].lsb_in, metadata[1].lsb_out))

\* if not vivado_settings_path.exists(): raise FileNotFoundError
CheckSettings(exists) ==
    /\ Runs("check_settings", IF exists THEN "" ELSE "FileNotFoundError")
    /\ UNCHANGED <<disk, metadata>>

\* the journal files are unlinked, errors ignored
Cleanup ==
    /\ Runs("cleanup", "")
    /\ UNCHANGED <<disk, metadata>>

\* no use of read_util_report.py inside this process
NoReport ==
    /\ all_lines = <<>>
    /\ uid_counter = 0
    /\ reports = <<>>
    /\ last = NoCall

InitFlow ==
    /\ pc = "check_dir"
    /\ log = <<>>
    /\ disk \in [tb : TbFiles, verifier : VerifierFiles]
    /\ metadata = None
    /\ NoReport
    /\ NoVivado

NextFlow ==
    \/ \E exists \in BOOLEAN : CheckDir(exists)
    \/ \E command \in Commands, found \in BOOLEAN : Spawn(command, found)
    \/ \E command \in Commands, returncode \in ReturnCodes : Exits(command, returncode)
    \/ CopyAndParse
    \/ UpdateTb
    \/ UpdateVerifier
    \/ \E exists \in BOOLEAN : CheckSettings(exists)
    \/ Cleanup

SpecFlow == InitFlow /\ [][NextFlow]_vars

(***************************************************************************)
(* call_vivado.py: paths, the file system and the search path              *)
(*                                                                         *)
(* A pathlib.Path is the sequence of its components; an absolute path      *)
(* begins with the root "/" (PosixPath).  The machine is a record: files   *)
(* (the regular files that exist), links (the symbolic links, each with    *)
(* its target) and PATH (the directories of the environment variable).     *)
(***************************************************************************)
Root == "/"

\* os.getcwd()
Cwd == <<Root, "work">>

\* the home directory of the user who runs the script
Home == <<Root, "home">>

Opt == <<Root, "opt">>

\* the directories of the machine; they exist on every machine of the model
Directories == {<<Root>>, Cwd, Home, Opt}

\* PosixPath keeps the Windows path as one component, relative to Cwd
DEFAULT_VIVADO_PATH == <<"D:\\Xilinx\\2025.1.1\\Vivado\\bin\\vivado.bat">>

\* Path.expanduser(): a leading "~" becomes the home directory
expanduser(path) ==
    IF path # <<>> /\ path[1] = "~" THEN Home \o Tail(path) ELSE path

\* Path.absolute(): a relative path is taken from the working directory
absolute(path) ==
    IF path # <<>> /\ path[1] = Root THEN path ELSE Cwd \o path

\* the lengths of the prefixes of path that are symbolic links
LinkedPrefixes(path, links) ==
    {k \in 1..Len(path) : SubSeq(path, 1, k) \in DOMAIN links}

RECURSIVE realpath(_, _)
\* os.path.realpath(): every symbolic link on the way replaced by its target
realpath(path, links) ==
    IF LinkedPrefixes(path, links) = {}
    THEN path
    ELSE realpath(links[SubSeq(path, 1, SetMin(LinkedPrefixes(path, links)))]
                  \o SubSeq(path, SetMin(LinkedPrefixes(path, links)) + 1, Len(path)),
                  links)

\* Path.resolve(): absolute, with the symbolic links followed
resolve(path, machine) == realpath(absolute(path), machine.links)

\* Path.exists(): follows symbolic links; a dangling link does not exist
path_exists(path, machine) ==
    resolve(path, machine) \in machine.files \cup Directories

\* str(path): the components joined by "/"
RECURSIVE path_str(_)
path_str(path) ==
    IF path = <<>> THEN "."
    ELSE IF Len(path) = 1 THEN path[1]
    ELSE IF path[1] = Root THEN Root \o path_str(Tail(path))
    ELSE path[1] \o "/" \o path_str(Tail(path))

RECURSIVE which(_, _, _)
\* shutil.which(cmd): cmd in the first directory of PATH that holds such a file
which(cmd, dirs, machine) ==
    IF dirs = <<>>
    THEN None
    ELSE IF resolve(Head(dirs) \o <<cmd>>, machine) \in machine.files
    THEN Some(Head(dirs) \o <<cmd>>)
    ELSE which(cmd, Tail(dirs), machine)

FileNotFound == [exc |-> "FileNotFoundError", val |-> None]

Returns(path) == [exc |-> "", val |-> Some(path)]

\* resolve_vivado_executable when explicit_path is None
vivado_from_environment(vivado, machine) ==
    IF vivado # None
    THEN Returns(resolve(vivado[1], machine))
    ELSE IF path_exists(DEFAULT_VIVADO_PATH, machine)
    THEN Returns(resolve(DEFAULT_VIVADO_PATH, machine))
    ELSE FileNotFound

\* resolve_vivado_executable with the search continued after a missing explicit path
resolve_vivado_executable_falls_back(explicit_path, machine) ==
    IF explicit_path # None
       /\ path_exists(resolve(expanduser(explicit_path[1]), machine), machine)
    THEN Returns(resolve(expanduser(explicit_path[1]), machine))
    ELSE vivado_from_environment(which("vivado", machine.PATH, machine), machine)

\* explicit_path is None or Some(path); a Path is truthy whatever it holds
resolve_vivado_executable(explicit_path, machine) ==
    IF explicit_path # None
    THEN IF ~path_exists(resolve(expanduser(explicit_path[1]), machine), machine)
         THEN FileNotFound
         ELSE Returns(resolve(expanduser(explicit_path[1]), machine))
    ELSE vivado_from_environment(which("vivado", machine.PATH, machine), machine)

build_command(vivado, tcl_script, script_args, machine) ==
    IF ~path_exists(resolve(expanduser(tcl_script), machine), machine)
    THEN FileNotFound
    ELSE Returns(<<path_str(vivado), "-mode", "batch", "-nolog", "-nojournal",
                   "-source", path_str(resolve(expanduser(tcl_script), machine)),
                   "-tclargs">> \o script_args)

(***************************************************************************)
(* call_vivado.py: the machines and command lines of the model             *)
(***************************************************************************)
MaxPathDirs == 2

OptVivado == Opt \o <<"vivado">>

HomeVivado == Home \o <<"vivado">>

CwdVivado == Cwd \o <<"vivado">>

CwdLink == Cwd \o <<"link">>

TclScript == <<"run.tcl">>

FilePool ==
    {OptVivado, HomeVivado, CwdVivado, Cwd \o DEFAULT_VIVADO_PATH, Cwd \o TclScript}

LinkPool ==
    {NoLinks, [link \in {CwdLink} |-> OptVivado], [link \in {HomeVivado} |-> OptVivado]}

\* the values of PATH: up to MaxPathDirs directories, none of them twice
SearchPaths ==
    {dirs \in SeqsUpTo(Directories \ {<<Root>>}, MaxPathDirs) :
        \A i, j \in 1..Len(dirs) : dirs[i] = dirs[j] => i = j}

Machines ==
    {machine \in [files : SUBSET FilePool, links : LinkPool, PATH : SearchPaths] :
        DOMAIN machine.links \cap machine.files = {}}

\* the values of --vivado: absent, "", absolute, relative, under "~", a link
VivadoOptions ==
    {None, Some(<<>>), Some(OptVivado), Some(<<"vivado">>), Some(<<"~", "vivado">>),
     Some(<<"link">>)}

\* the values of --tcl: absent (the option is required) or the script
TclOptions == {None, Some(TclScript)}

\* the values of --args
ScriptArgs == {<<>>, <<"top">>}

(***************************************************************************)
(* call_vivado.py: main()                                                  *)
(***************************************************************************)
Launcher(statement) == launcher.pc = statement

\* the statements of main() change neither the machine nor the other programs
LauncherOnly == UNCHANGED <<host, report_vars, flow_vars>>

Raised(exc) ==
    /\ launcher' = [launcher EXCEPT !.pc = "raised", !.exc = exc]
    /\ LauncherOnly

Exited(returncode) ==
    /\ launcher' = [launcher EXCEPT !.pc = "exited", !.returncode = returncode]
    /\ LauncherOnly

ParseArgs(vivado, tcl, script_args) ==
    /\ Launcher("parse_args")
    /\ IF tcl = None
       THEN Exited(2)
       ELSE /\ launcher' =
                   [launcher EXCEPT
                      !.pc = "resolve",
                      !.args = [vivado_executable |-> vivado, tcl_script |-> tcl[1],
                                args |-> script_args]]
            /\ LauncherOnly

ResolveReturns(res) ==
    IF res.exc # ""
    THEN Raised(res.exc)
    ELSE /\ launcher' = [launcher EXCEPT !.pc = "build", !.vivado_executable = res.val]
         /\ LauncherOnly

Resolve ==
    /\ Launcher("resolve")
    /\ ResolveReturns(resolve_vivado_executable(launcher.args.vivado_executable, host))

BuildReturns(res) ==
    IF res.exc # ""
    THEN Raised(res.exc)
    ELSE /\ launcher' = [launcher EXCEPT !.pc = "check_call", !.command = res.val[1]]
         /\ LauncherOnly

BuildCommand ==
    /\ Launcher("build")
    /\ BuildReturns(build_command(launcher.vivado_executable[1], launcher.args.tcl_script,
                                  launcher.args.args, host))

CheckCall(returncode) ==
    /\ Launcher("check_call")
    /\ Exited(returncode)

InitVivado ==
    /\ host \in Machines
    /\ launcher = [NoLaunch EXCEPT !.pc = "parse_args"]
    /\ NoReport
    /\ NoFlow

NextVivado ==
    \/ \E vivado \in VivadoOptions, tcl \in TclOptions, script_args \in ScriptArgs :
          ParseArgs(vivado, tcl, script_args)
    \/ Resolve
    \/ BuildCommand
    \/ \E returncode \in ReturnCodes : CheckCall(returncode)

SpecVivado == InitVivado /\ [][NextVivado]_vars

(***************************************************************************)
(* Vocabulary of the properties.  Line numbers count from 0, as the source *)
(* counts them.                                                            *)
(***************************************************************************)
LineAt(i) == all_lines[i + 1]

LineNumbers == 0..(Len(all_lines) - 1)

HeaderLineNumbers == {i \in LineNumbers : py_in(kTotalLUTs, LineAt(i))}

HasHeader == \E i \in LineNumbers : py_in(kTotalLUTs, LineAt(i))

FirstHeader == SetMin(HeaderLineNumbers)

IsRule(line) == py_in(kRuleMark, line)

IsBlank(line) == \A i \in 1..Len(line) : IsSpace(line[i])

\* the non-blank lines from the second line after header line h up to the
\* first rule line at or after it
DataLineNumbers(h) ==
    LET rules == {j \in LineNumbers : j >= h + 2 /\ IsRule(LineAt(j))}
        end   == IF rules = {} THEN Len(all_lines) ELSE SetMin(rules)
    IN  {i \in (h + 2)..(end - 1) : ~IsBlank(LineAt(i))}

\* the k-th of a set of line numbers, in file order
Kth(numbers, k) ==
    CHOOSE i \in numbers : Cardinality({j \in numbers : j < i}) = k - 1

\* an entry is the one built from a line under the column names header_fields
BuiltFrom(entry, header_fields, line) ==
    /\ entry.UId # None
    /\ LET row == ParseRow(header_fields, line, entry.UId[1])
       IN  row.exc = "" /\ row.record = entry

\* the state is the one a call of read_vivado_util_report has just left
JustRead == last.op = "read_vivado_util_report"

JustReturned == JustRead /\ last.exc = ""

(***************************************************************************)
(* C1: the entries of a returned report are, one for one and in file       *)
(* order, the non-blank lines from the second line after the header up to  *)
(* the first line holding "-+-" (or the end of the file): the line after   *)
(* the header gives no entry, a blank line does not end the scan, no line  *)
(* after the rule gives an entry.                                          *)
(***************************************************************************)
C1_EntriesAreDataLines ==
    JustReturned =>
        /\ HasHeader
        /\ LET h       == FirstHeader
               data    == DataLineNumbers(h)
               fields  == parse_table_row(LineAt(h))
               entries == reports[last.r].all_entries
           IN  /\ Len(entries) = Cardinality(data)
               /\ \A k \in 1..Len(entries) :
                     BuiltFrom(entries[k], fields, LineAt(Kth(data, k)))

\* a report whose file has a row right after the header (no entry of it), a
\* blank line in the data region and a row after the blank line (an entry)
C1_Witness ==
    /\ JustReturned
    /\ HasHeader
    /\ LET h == FirstHeader
       IN  /\ h + 3 \in LineNumbers
           /\ ~IsBlank(LineAt(h + 1)) /\ ~IsRule(LineAt(h + 1))
           /\ IsBlank(LineAt(h + 2))
           /\ ~IsBlank(LineAt(h + 3)) /\ ~IsRule(LineAt(h + 3))
    /\ Len(reports[last.r].all_entries) = 1

(***************************************************************************)
(* C2: the header row is the first line that holds "Total LUTs"; a file    *)
(* with no such line makes the call raise, and no report is returned.      *)
(***************************************************************************)
C2_FirstHeaderOrRaise ==
    JustRead =>
        /\ FindHeader(all_lines, 0) = (IF HasHeader THEN FirstHeader ELSE -1)
        /\ ~HasHeader <=> last.exc = "RuntimeError"
        /\ ~HasHeader => last.r \notin Returned /\ reports[last.r].all_entries = <<>>
        /\ last.exc = "" =>
              Len(reports[last.r].all_entries)
                 = Cardinality(DataLineNumbers(FirstHeader))

\* a call on a file of several lines, none with "Total LUTs", has raised
C2_Witness ==
    /\ JustRead
    /\ last.exc = "RuntimeError"
    /\ Len(all_lines) >= 2
    /\ ~HasHeader

(***************************************************************************)
(* C3: an entry returned by get_by_instance_name(name, depth) is the first *)
(* entry of all_entries with that Instance and, when depth is not None,    *)
(* that Depth; depth 0 is a filter like any other depth.                   *)
(***************************************************************************)
Wanted(entry, name, depth) ==
    /\ entry.Instance = Some(name)
    /\ depth # None => entry.Depth = depth

C3_FirstMatchReturned ==
    (last.op = "get_by_instance_name" /\ last.exc = "") =>
        /\ last.val # None
        /\ \E i \in 1..Len(util) :
              /\ last.val = Some(util[i])
              /\ Wanted(util[i], last.instance[1], last.depth)
              /\ \A j \in 1..(i - 1) : ~Wanted(util[j], last.instance[1], last.depth)
        /\ last.depth = Some(0) => last.val[1].Depth = Some(0)

\* a lookup at depth 0 returned an entry that follows a deeper entry of the
\* same name
C3_Witness ==
    /\ last.op = "get_by_instance_name" /\ last.exc = ""
    /\ last.depth = Some(0)
    /\ Len(util) >= 2
    /\ util[1].Instance = last.instance
    /\ util[1].Depth = Some(1)
    /\ last.val = Some(util[2])

(***************************************************************************)
(* C4: get_by_instance_name raises exactly when no entry has the name and  *)
(* a matching depth; the message lists the Instance of every entry of the  *)
(* report in file order, those of the right name and wrong depth included. *)
(***************************************************************************)
C4_RaisesIffNoMatch ==
    last.op = "get_by_instance_name" =>
        /\ last.exc # "" <=>
              ~\E i \in 1..Len(util) : Wanted(util[i], last.instance[1], last.depth)
        /\ last.exc # "" =>
              /\ last.exc = "ValueError"
              /\ last.val = None
              /\ last.msg = CannotFindMessage(last.instance[1],
                                [i \in 1..Len(util) |-> util[i].Instance])

\* the lookup raised although an entry has the name, at another depth
C4_Witness ==
    /\ last.op = "get_by_instance_name" /\ last.exc = "ValueError"
    /\ last.depth = Some(1)
    /\ Len(util) >= 2
    /\ \E i \in 1..Len(util) : util[i].Instance = last.instance
    /\ \E i \in 1..Len(util) : util[i].Instance # last.instance

(***************************************************************************)
(* C5: get_by_instance_name_or_none never raises; it returns None exactly  *)
(* when get_by_instance_name raises for the same arguments, and otherwise  *)
(* the entry get_by_instance_name returns.                                 *)
(***************************************************************************)
C5_OrNoneAgrees ==
    last.op = "get_by_instance_name_or_none" =>
        LET strict == get_by_instance_name(util, last.instance[1], last.depth)
        IN  /\ last.exc = ""
            /\ last.val = None <=> strict.exc # ""
            /\ strict.exc = "" => last.val = strict.val

\* None came back from a report that has entries
C5_Witness ==
    /\ last.op = "get_by_instance_name_or_none"
    /\ last.exc = "" /\ last.val = None
    /\ Len(util) >= 1

(***************************************************************************)
(* C6: "not found" is told apart from "found with zero resources".  For an *)
(* entry whose LUTs, FFs, SRLs, URAMs, DSPs and BRAMs are all zero, the     *)
(* lookup by its name gives an entry, never None, and the command line     *)
(* with --instance set to its name prints a formatted line, never the      *)
(* "not found" message.                                                    *)
(***************************************************************************)
\* the entries main() parses: it runs first in its process, the counter at 0
ParsedByMain == read_vivado_util_report(all_lines, 0).entries

FirstWanted(entries, name, depth) ==
    entries[SetMin({i \in 1..Len(entries) : Wanted(entries[i], name, depth)})]

\* the claim as stated: the entry returned, and the line printed, are those
\* of the zero entry itself
ZeroEntryItself(entries, name, depth, val, stdout, cli) ==
    \A i \in 1..Len(entries) :
        (AllZero(entries[i]) /\ Wanted(entries[i], name, depth)) =>
            IF cli THEN stdout = <<get_string(entries[i])>>
            ELSE val = Some(entries[i])

C6_ZeroEntryItself ==
    /\ last.op = "get_by_instance_name_or_none" =>
          ZeroEntryItself(util, last.instance[1], last.depth, last.val, <<>>, FALSE)
    /\ (last.op = "main" /\ last.exc = "" /\ StrTruthy(last.instance)) =>
          ZeroEntryItself(ParsedByMain, last.instance[1], None, None, last.stdout, TRUE)

\* amended: the entry returned, and the line printed, are those of the
\* first entry with the name (and depth), which is the zero entry when no
\* earlier entry has its name (and depth)
ZeroEntryFound(entries, name, depth, val, stdout, cli) ==
    \A i \in 1..Len(entries) :
        (AllZero(entries[i]) /\ Wanted(entries[i], name, depth)) =>
            /\ IF cli THEN /\ stdout = <<get_string(FirstWanted(entries, name, depth))>>
                           /\ stdout # <<NotFoundLine(name)>>
               ELSE /\ val # None
                    /\ val = Some(FirstWanted(entries, name, depth))
            /\ (\A j \in 1..(i - 1) : ~Wanted(entries[j], name, depth)) =>
                  IF cli THEN stdout = <<get_string(entries[i])>>
                  ELSE val = Some(entries[i])

C6_ZeroEntryFound ==
    /\ last.op = "get_by_instance_name_or_none" =>
          ZeroEntryFound(util, last.instance[1], last.depth, last.val, <<>>, FALSE)
    /\ (last.op = "main" /\ last.exc = "" /\ StrTruthy(last.instance)) =>
          ZeroEntryFound(ParsedByMain, last.instance[1], None, None, last.stdout, TRUE)

\* the command line printed the line of an entry whose counts are all zero
ZeroEntryPrinted(entries) ==
    /\ Len(entries) >= 1
    /\ entries[1].Instance = last.instance
    /\ AllZero(entries[1])
    /\ last.stdout = <<get_string(entries[1])>>

C6_Witness ==
    /\ last.op = "main" /\ last.exc = "" /\ StrTruthy(last.instance)
    /\ ZeroEntryPrinted(ParsedByMain)

(***************************************************************************)
(* C7: for a report with at least one data row, get_top() returns          *)
(* all_entries[0], the entry built from the first data row after the       *)
(* header and the line that follows it.                                    *)
(***************************************************************************)
TopIsFirstRow(h, entries) ==
    /\ last.exc = ""
    /\ last.val = Some(entries[1])
    /\ DataLineNumbers(h) # {}
    /\ BuiltFrom(entries[1], parse_table_row(LineAt(h)),
                 LineAt(SetMin(DataLineNumbers(h))))

C7_TopIsFirstRow ==
    (last.op = "get_top" /\ Len(util) >= 1) => TopIsFirstRow(FirstHeader, util)

\* get_top() returned from a report of two entries of different names, in
\* a file whose line after the header is a row
C7_Witness ==
    /\ last.op = "get_top" /\ last.exc = ""
    /\ Len(util) = 2
    /\ util[1].Instance # util[2].Instance
    /\ ~IsRule(LineAt(FirstHeader + 1))

(***************************************************************************)
(* C8: a table with a header and no data row parses to a report with no    *)
(* entry, and get_top() on it raises: it returns no entry and no None.     *)
(***************************************************************************)
C8_EmptyTableTopRaises ==
    /\ (JustRead /\ HasHeader) =>
          (DataLineNumbers(FirstHeader) = {} =>
              /\ last.exc = ""
              /\ last.r \in Returned
              /\ reports[last.r].all_entries = <<>>)
    /\ (last.op = "get_top" /\ util = <<>>) =>
          /\ last.exc = "IndexError"
          /\ last.val = None

\* get_top() raised on the report of a file whose data region holds a blank
\* line and nothing else
C8_Witness ==
    /\ last.op = "get_top" /\ last.exc = "IndexError"
    /\ util = <<>>
    /\ FirstHeader + 2 \in LineNumbers
    /\ \A i \in (FirstHeader + 2)..(Len(all_lines) - 1) : IsBlank(LineAt(i))

(***************************************************************************)
(* C9: the Depth of the entry of a data row is max((n - 1) // 2, 0), n the *)
(* number of leading whitespace characters of the text between the row's   *)
(* first and second "|"; Depth is never negative.                          *)
(***************************************************************************)
PipesOf(line) == {i \in 1..Len(line) : line[i] = "|"}

\* the raw text between the first and the second pipe of a line with two
FirstCell(line, first) ==
    SubSeq(line, first + 1, SetMin(PipesOf(line) \ {first}) - 1)

LeadingCount(text) ==
    Cardinality({i \in 1..Len(text) : \A j \in 1..i : IsSpace(text[j])})

DepthOfIndent(n) == IF (n - 1) \div 2 > 0 THEN (n - 1) \div 2 ELSE 0

DepthIsFromIndent(entry, line) ==
    /\ entry.Depth # None
    /\ entry.Depth[1] >= 0
    /\ Cardinality(PipesOf(line)) >= 2 =>
          entry.Depth[1]
             = DepthOfIndent(LeadingCount(FirstCell(line, SetMin(PipesOf(line)))))

DepthsAreFromIndent(data, entries) ==
    \A k \in 1..Len(entries) : DepthIsFromIndent(entries[k], LineAt(Kth(data, k)))

C9_DepthFromIndent ==
    JustReturned =>
        DepthsAreFromIndent(DataLineNumbers(FirstHeader), reports[last.r].all_entries)

\* a row indented by five spaces has given an entry of depth 2
IndentFiveDepthTwo(data, entries) ==
    \E k \in 1..Len(entries) :
        /\ Cardinality(PipesOf(LineAt(Kth(data, k)))) >= 2
        /\ LeadingCount(FirstCell(LineAt(Kth(data, k)),
                                  SetMin(PipesOf(LineAt(Kth(data, k)))))) = 5
        /\ entries[k].Depth = Some(2)

C9_Witness ==
    /\ JustReturned
    /\ IndentFiveDepthTwo(DataLineNumbers(FirstHeader), reports[last.r].all_entries)

(***************************************************************************)
(* C10: the value the parser gives a column name is the content of the     *)
(* row's cell at the pipe-delimited position the name has in the header    *)
(* line, also in a row with an empty or blank cell.                        *)
(***************************************************************************)
\* the cells of a line by position: the text between consecutive pipes,
\* trimmed, empty cells kept
CellsByPosition(line) ==
    [p \in 1..Len(py_split(line, "|")) |-> py_strip(py_split(line, "|")[p])]

CellAligned(entry, name, cell) ==
    /\ name = kInstance => entry.Instance = Some(cell)
    /\ name = kModule => entry.Module = Some(cell)
    /\ (name = kTotalLUTs /\ AllDigits(cell)) => entry.LUTs = DigitsValue(cell)
    /\ (name = kFFs /\ AllDigits(cell)) => entry.FFs = DigitsValue(cell)
    /\ (name = kDSPBlocks /\ AllDigits(cell)) => entry.DSPs = DigitsValue(cell)

RowAligned(entry, names, cells) ==
    Len(cells) = Len(names) =>
        \A p \in 1..Len(names) : names[p] # <<>> => CellAligned(entry, names[p], cells[p])

RowsAligned(h, data, entries) ==
    \A k \in 1..Len(entries) :
        RowAligned(entries[k], CellsByPosition(LineAt(h)),
                   CellsByPosition(LineAt(Kth(data, k))))

C10_ColumnsAligned ==
    JustReturned =>
        RowsAligned(FirstHeader, DataLineNumbers(FirstHeader),
                    reports[last.r].all_entries)

(***************************************************************************)
(* C11: for each of the columns Total LUTs, SRLs, FFs, URAM, DSP Blocks,   *)
(* RAMB36 and RAMB18, a header without a column of that name does not make *)
(* the call raise, and the field of every entry is the zero default        *)
(* (BRAMs gets 0 from an absent RAMB36 or RAMB18).                         *)
(***************************************************************************)
NumericColumns == {kTotalLUTs, kSRLs, kFFs, kURAM, kDSPBlocks, kRAMB36, kRAMB18}

HasColumn(header_fields, key) ==
    \E p \in 1..Len(header_fields) : header_fields[p] = key

\* the conversion the source applies to the cell of a numeric column
Converted(key, cell) ==
    IF key \in {kRAMB36, kRAMB18} THEN py_float(cell) ELSE py_int(cell)

AbsentKeepsDefault(entry, header_fields, values) ==
    /\ ~HasColumn(header_fields, kTotalLUTs) => entry.LUTs = 0
    /\ ~HasColumn(header_fields, kSRLs) => entry.SRLs = 0
    /\ ~HasColumn(header_fields, kFFs) => entry.FFs = 0
    /\ ~HasColumn(header_fields, kURAM) => entry.URAMs = 0
    /\ ~HasColumn(header_fields, kDSPBlocks) => entry.DSPs = 0
    /\ (~HasColumn(header_fields, kRAMB36) /\ ~HasColumn(header_fields, kRAMB18)) =>
          entry.BRAMs = 0
    /\ (~HasColumn(header_fields, kRAMB36)
           /\ kRAMB18 \in MapKeys(header_fields, values)) =>
          entry.BRAMs = py_float(MapGet(header_fields, values, kRAMB18)).val \div 2
    /\ (~HasColumn(header_fields, kRAMB18)
           /\ kRAMB36 \in MapKeys(header_fields, values)) =>
          entry.BRAMs = py_float(MapGet(header_fields, values, kRAMB36)).val

\* a line fails for a reason other than an absent column: its depth cannot
\* be taken, or the cell paired with a numeric column is no number
FailsOnPresent(header_fields, values, depth) ==
    \/ depth.exc # ""
    \/ \E key \in NumericColumns :
          /\ key \in MapKeys(header_fields, values)
          /\ Converted(key, MapGet(header_fields, values, key)).exc # ""

AbsentColumnsDefault(header_fields, data, entries) ==
    /\ \A k \in 1..Len(entries) :
          AbsentKeepsDefault(entries[k], header_fields,
                             parse_table_row(LineAt(Kth(data, k))))
    /\ last.exc # "" =>
          /\ last.exc \in {"ValueError", "IndexError"}
          /\ \E i \in data :
                FailsOnPresent(header_fields, parse_table_row(LineAt(i)),
                               parse_table_row_depth(LineAt(i)))

C11_AbsentColumnsDefault ==
    (JustRead /\ HasHeader) =>
        AbsentColumnsDefault(parse_table_row(LineAt(FirstHeader)),
                             DataLineNumbers(FirstHeader),
                             reports[last.r].all_entries)

\* a report of a file whose header has no Total LUTs, FFs, RAMB36 or DSP
\* Blocks column: the entry has the SRLs, URAM and RAMB18 of its row (1.5
\* block RAMs from three RAMB18) and zero for the absent columns
OddEntry(header_fields, entries) ==
    /\ \A key \in {kTotalLUTs, kFFs, kRAMB36, kDSPBlocks} : ~HasColumn(header_fields, key)
    /\ Len(entries) = 1
    /\ entries[1].SRLs = 8 /\ entries[1].URAMs = 9 /\ entries[1].BRAMs = 6
    /\ entries[1].LUTs = 0 /\ entries[1].FFs = 0 /\ entries[1].DSPs = 0

C11_Witness ==
    /\ JustReturned
    /\ OddEntry(parse_table_row(LineAt(FirstHeader)), reports[last.r].all_entries)

(***************************************************************************)
(* C12: for every data row and every numeric column present in the header, *)
(* a cell of the row under that column that is not a valid number makes    *)
(* the call raise: no report is returned for a file with such a cell.      *)
(***************************************************************************)
\* the cell of a row under position p of the header is no valid number
\* (there is no cell at p, or its text does not convert)
InvalidCell(key, cells, p) ==
    \/ p > Len(cells)
    \/ Converted(key, cells[p]).exc # ""

RowHasInvalidCell(names, cells) ==
    \E p \in 1..Len(names) :
        names[p] \in NumericColumns /\ InvalidCell(names[p], cells, p)

InvalidCellsRaise(h, data) ==
    (\E i \in data : RowHasInvalidCell(CellsByPosition(LineAt(h)),
                                       CellsByPosition(LineAt(i))))
        => last.exc # ""

C12_InvalidCellRaises ==
    (JustRead /\ HasHeader) =>
        InvalidCellsRaise(FirstHeader, DataLineNumbers(FirstHeader))

(***************************************************************************)
(* C13: there is no partial success.  A call either returns a report with  *)
(* one entry for every data row of the data region, or raises and returns  *)
(* no report; a file with a row that fails to parse gives no report, not   *)
(* one of the rows before it.                                              *)
(***************************************************************************)
RowFails(header_fields, line) == ParseRow(header_fields, line, 0).exc # ""

AllRowsOrNone(header_fields, data, entries) ==
    /\ (\E i \in data : RowFails(header_fields, LineAt(i))) => last.exc # ""
    /\ last.exc = "" =>
          /\ last.r \in Returned
          /\ Len(entries) = Cardinality(data)
    /\ last.exc # "" =>
          /\ last.r \notin Returned
          /\ entries = <<>>

C13_AllRowsOrNone ==
    (JustRead /\ HasHeader) =>
        AllRowsOrNone(parse_table_row(LineAt(FirstHeader)),
                      DataLineNumbers(FirstHeader),
                      reports[last.r].all_entries)

\* a call has raised on a file whose first data row parses and whose second
\* does not: no report, and the counter has moved past the first row
GoodRowThenBadRow(header_fields, data) ==
    /\ Cardinality(data) >= 2
    /\ ~RowFails(header_fields, LineAt(Kth(data, 1)))
    /\ RowFails(header_fields, LineAt(Kth(data, 2)))

C13_Witness ==
    /\ JustRead /\ HasHeader
    /\ last.exc = "ValueError"
    /\ reports[last.r].all_entries = <<>>
    /\ uid_counter >= 1
    /\ GoodRowThenBadRow(parse_table_row(LineAt(FirstHeader)),
                         DataLineNumbers(FirstHeader))

(***************************************************************************)
(* C14: after any sequence of read_vivado_util_report calls in a process,  *)
(* returning or raising in any order, the UIds of the entries of all       *)
(* returned reports are pairwise distinct and increase strictly in call    *)
(* order and, within a call, in file order; the UId of an entry is the     *)
(* value uid_counter had when its row was parsed; uid_counter never        *)
(* decreases.                                                              *)
(***************************************************************************)
\* the entries of all returned reports, by call and position
EntryPlaces ==
    UNION {{<<r, k>> : k \in 1..Len(reports[r].all_entries)} : r \in Returned}

UIdAt(p) == reports[p[1]].all_entries[p[2]].UId

Before(p, q) == p[1] < q[1] \/ (p[1] = q[1] /\ p[2] < q[2])

UIdsIncrease ==
    /\ \A p \in EntryPlaces : UIdAt(p) # None /\ UIdAt(p)[1] < uid_counter
    /\ \A p, q \in EntryPlaces : Before(p, q) => UIdAt(p)[1] < UIdAt(q)[1]

\* a step of the process: the counter does not decrease, and the k-th entry
\* of a report a call has just returned has the value the counter had at
\* the call plus the k - 1 increments of the rows before it
UIdsOfNewReport(entries) ==
    /\ \A k \in 1..Len(entries) : entries[k].UId = Some(uid_counter + k - 1)
    /\ uid_counter' >= uid_counter + Len(entries)

CounterStep ==
    /\ uid_counter' >= uid_counter
    /\ reports' # reports => UIdsOfNewReport(reports'[Len(reports')].all_entries)

C14_UIdsFromCounter == []UIdsIncrease /\ [][CounterStep]_vars

\* a call that raised after parsing a row, then a call on another file that
\* returned: the entry of the second call has UId 1, the counter is at 2
C14_Witness ==
    /\ Len(reports) = 2
    /\ reports[1].exc = "ValueError"
    /\ reports[2].exc = ""
    /\ Len(reports[2].all_entries) = 1
    /\ reports[2].all_entries[1].UId = Some(1)
    /\ uid_counter = 2

(***************************************************************************)
(* C15: the BRAMs of the entry of every data row is RAMB36 + 0.5 * RAMB18, *)
(* RAMB36 and RAMB18 being the row's values under the columns of those     *)
(* names (0 for a column the header does not have): 2 and 3 give 3.5.      *)
(***************************************************************************)
PositionsOf(names, key) == {p \in 1..Len(names) : names[p] = key}

\* the row has a number under every column named key
HasNumberUnder(names, cells, key) ==
    \A p \in PositionsOf(names, key) :
        p <= Len(cells) /\ py_float(cells[p]).exc = ""

\* the row's value under the column named key, in quarters
NumberUnder(names, cells, key) ==
    IF PositionsOf(names, key) = {} THEN 0
    ELSE py_float(cells[SetMax(PositionsOf(names, key))]).val

BRAMsFused(entry, names, cells) ==
    (HasNumberUnder(names, cells, kRAMB36) /\ HasNumberUnder(names, cells, kRAMB18)) =>
        2 * entry.BRAMs = 2 * NumberUnder(names, cells, kRAMB36)
                            + NumberUnder(names, cells, kRAMB18)

AllBRAMsFused(h, data, entries) ==
    \A k \in 1..Len(entries) :
        BRAMsFused(entries[k], CellsByPosition(LineAt(h)),
                   CellsByPosition(LineAt(Kth(data, k))))

C15_BRAMsFused ==
    JustReturned =>
        AllBRAMsFused(FirstHeader, DataLineNumbers(FirstHeader),
                      reports[last.r].all_entries)

(***************************************************************************)
(* C16: the queries get_top, get_by_instance_name and                      *)
(* get_by_instance_name_or_none, returning or raising, change neither the  *)
(* length, the order nor any field of the entries of a report, nor         *)
(* uid_counter; and a later parse, of the same or of another file, leaves  *)
(* the entries of the reports returned before it as they were.             *)
(***************************************************************************)
Queries == {"get_top", "get_by_instance_name", "get_by_instance_name_or_none"}

FrameStep ==
    /\ (last' # last /\ last'.op \in Queries) =>
          /\ reports' = reports
          /\ uid_counter' = uid_counter
    /\ Len(reports') >= Len(reports)
    /\ \A r \in 1..Len(reports) : reports'[r] = reports[r]

C16_ReportsFrozen == [][FrameStep]_vars

\* a report with an entry "a" was returned, and then another file, with no
\* "a", was parsed: the first report still has its entry, with its UId
C16_Witness ==
    /\ JustRead
    /\ Len(reports) = 2
    /\ all_lines \in OtherFiles
    /\ reports[1].exc = ""
    /\ Len(reports[1].all_entries) >= 1
    /\ reports[1].all_entries[1].Instance = Some(<<"a">>)
    /\ reports[1].all_entries[1].UId = Some(0)
    /\ uid_counter > Len(reports[1].all_entries)

(***************************************************************************)
(* C17: for a report that parses, the command line with an instance filter *)
(* prints exactly one line, the formatted line of the first entry in file  *)
(* order with that instance name or, when no entry has the name, the       *)
(* not-found message; without a filter it prints the formatted line of     *)
(* every entry, in file order.                                             *)
(***************************************************************************)
HasWanted(entries, name) == \E i \in 1..Len(entries) : Wanted(entries[i], name, None)

OneLineFor(entries, name, stdout) ==
    /\ Len(stdout) = 1
    /\ stdout[1] = (IF HasWanted(entries, name)
                    THEN get_string(FirstWanted(entries, name, None))
                    ELSE NotFoundLine(name))

AllLines(entries, stdout) ==
    stdout = [i \in 1..Len(entries) |-> get_string(entries[i])]

CliPrints(entries, instance, stdout) ==
    IF instance # None THEN OneLineFor(entries, instance[1], stdout)
    ELSE AllLines(entries, stdout)

C17_CliPrints ==
    (last.op = "main" /\ last.exc = "") =>
        CliPrints(ParsedByMain, last.instance, last.stdout)

(***************************************************************************)
(* C18: in every returned report with at least one entry the first entry   *)
(* is the top-level summary of the design: all_entries[0].Depth is 0 (no   *)
(* entry precedes it, being the first).                                    *)
(***************************************************************************)
FirstEntryIsTop(entries) == Len(entries) >= 1 => entries[1].Depth = Some(0)

C18_FirstEntryIsTop == JustReturned => FirstEntryIsTop(reports[last.r].all_entries)

(***************************************************************************)
(* C19: automate_flow.main runs its steps in the fixed order FloPoCo       *)
(* generation, copy and metadata parse, testbench and verifier patching,   *)
(* Vivado build, utilization report, xvhdl, xelab, xsim, output            *)
(* verification, error computation; a step starts only after every        *)
(* earlier one has ended with exit status 0 (without an exception, for a   *)
(* step that is no command), and after the first step that exits non-zero *)
(* or raises no other step starts.                                         *)
(***************************************************************************)
FlowOrder ==
    <<"flopoco", "copy_parse", "patch", "call_vivado", "read_util_report",
      "xvhdl", "xelab", "xsim", "verify", "compute_errors">>

\* the step of the claim a statement of main() belongs to
StepOf(statement) ==
    IF statement \in {"update_tb", "update_verifier"} THEN "patch" ELSE statement

\* the place of a statement in the claimed order, 0 for a statement that
\* is none of the claim's steps (a check of a path, the cleanup)
StepNumber ==
    [statement \in {Program[i] : i \in 1..Len(Program)} |->
        IF \E k \in 1..Len(FlowOrder) : FlowOrder[k] = StepOf(statement)
        THEN CHOOSE k \in 1..Len(FlowOrder) : FlowOrder[k] = StepOf(statement)
        ELSE 0]

Succeeded(e) ==
    /\ e.ended
    /\ e.exc = ""
    /\ e.returncode = (IF e.statement \in Commands THEN Some(0) ELSE None)

StepsBegun == {StepNumber[log[i].statement] : i \in 1..Len(log)} \ {0}

\* steps is the set of the steps begun
NoStepSkipped(steps) ==
    /\ \A k \in steps : \A earlier \in 1..(k - 1) : earlier \in steps
    /\ pc = "done" => steps = 1..Len(FlowOrder)

FlowInOrder ==
    /\ \A i, j \in 1..Len(log) :
          (i < j /\ StepNumber[log[j].statement] > 0) =>
              StepNumber[log[i].statement] <= StepNumber[log[j].statement]
    /\ NoStepSkipped(StepsBegun)
    /\ \A i \in 1..(Len(log) - 1) : Succeeded(log[i])
    /\ (log # <<>> /\ log[Len(log)].ended /\ ~Succeeded(log[Len(log)])) <=> pc = "aborted"

\* what is logged stays logged, and an aborted run logs nothing more
LogGrows ==
    /\ Len(log') >= Len(log)
    /\ \A i \in 1..(Len(log) - 1) : log'[i] = log[i]
    /\ pc = "aborted" => log' = log

C19_StepsInOrder == []FlowInOrder /\ [][LogGrows]_vars

\* xelab has exited with status 2 after the seven steps before it: the run
\* is aborted, and xsim and the two scripts after it were not started
C19_Witness ==
    /\ pc = "aborted"
    /\ log # <<>>
    /\ log[Len(log)].statement = "xelab"
    /\ log[Len(log)].returncode = Some(2)
    /\ StepsBegun = 1..7

(***************************************************************************)
(* C20: update_tb and update_verifier are all-or-nothing on the file they  *)
(* patch.  The file is rewritten only when each required substitution      *)
(* (x_tb width, y_tb width, sweep loop bound, sweep report text for        *)
(* update_tb; LSB_IN, LSB_OUT for update_verifier) has replaced one match; *)
(* when one of them has no match the function raises RuntimeError and the  *)
(* file on disk is as it was.                                              *)
(***************************************************************************)
TbPatterns == {"x_tb", "y_tb", "loop", "report"}

VerifierPatterns == {"LSB_IN", "LSB_OUT"}

\* the number a substitution writes, from the metadata of the run
NewNumber(pattern, m) ==
    CASE pattern = "x_tb" -> m.x_width - 1
      [] pattern = "y_tb" -> m.y_width - 1
      [] pattern = "loop" -> 2 ^ m.x_width - 1
      [] pattern = "report" -> 2 ^ m.x_width
      [] pattern = "LSB_IN" -> m.lsb_in
      [] pattern = "LSB_OUT" -> m.lsb_out

\* new is old with the first match of every pattern replaced, and every
\* other line, later matches included, as it was
Rewritten(old, new, patterns, m) ==
    /\ Len(new) = Len(old)
    /\ \A i \in 1..Len(old) :
          new[i] = IF old[i][1] \in patterns /\ i = SetMin(MatchesOf(old, old[i][1]))
                   THEN <<old[i][1], NewNumber(old[i][1], m)>>
                   ELSE old[i]

\* the step of the run in which a patching function is called
PatchStep(statement, file, patterns, unpatched) ==
    (pc = statement /\ pc' # pc) =>
        /\ disk'[unpatched] = disk[unpatched]
        /\ log'[Len(log')].statement = statement
        /\ IF \A p \in patterns : MatchesOf(disk[file], p) # {}
           THEN /\ log'[Len(log')].exc = ""
                /\ Rewritten(disk[file], disk'[file], patterns, metadata[1])
           ELSE /\ log'[Len(log')].exc = "RuntimeError"
                /\ pc' = "aborted"
                /\ disk'[file] = disk[file]

C20_PatchAllOrNothing ==
    [][/\ PatchStep("update_tb", "tb", TbPatterns, "verifier")
       /\ PatchStep("update_verifier", "verifier", VerifierPatterns, "tb")]_vars

\* update_tb has raised on a testbench in which both widths have a match
\* and the sweep report text has none: the width lines still hold the
\* numbers they had, not the widths of the run
C20_Witness ==
    /\ pc = "aborted"
    /\ log # <<>>
    /\ log[Len(log)].statement = "update_tb"
    /\ log[Len(log)].exc = "RuntimeError"
    /\ MatchesOf(disk.tb, "report") = {}
    /\ MatchesOf(disk.tb, "loop") # {}
    /\ \E i \in 1..Len(disk.tb) : disk.tb[i] = <<"x_tb", 7>>
    /\ \E i \in 1..Len(disk.tb) : disk.tb[i] = <<"y_tb", 7>>
    /\ metadata # None
    /\ metadata[1].x_width - 1 # 7

(***************************************************************************)
(* C21: the precedence of resolve_vivado_executable                        *)
(***************************************************************************)
\* the value of --vivado in the run of call_vivado.py
Explicit == launcher.args.vivado_executable

\* the places of PATH whose directory holds a vivado
OnPath ==
    {i \in 1..Len(host.PATH) : path_exists(host.PATH[i] \o <<"vivado">>, host)}

\* the one path the precedence allows: the explicit one and no other when it
\* is supplied, else the first vivado of PATH, else the default install path
Candidate ==
    IF Explicit # None THEN expanduser(Explicit[1])
    ELSE IF OnPath # {} THEN host.PATH[SetMin(OnPath)] \o <<"vivado">>
    ELSE DEFAULT_VIVADO_PATH

\* resolve_vivado_executable has raised
ResolveRaised == launcher.pc = "raised" /\ launcher.vivado_executable = None

\* resolve_vivado_executable has returned
ResolveReturned == launcher.vivado_executable # None

Precedence ==
    /\ ResolveReturned =>
          /\ path_exists(Candidate, host)
          /\ launcher.vivado_executable = Some(resolve(Candidate, host))
    /\ ResolveRaised =>
          /\ ~path_exists(Candidate, host)
          /\ launcher.exc = "FileNotFoundError"

====
